---- MODULE Spec2Model ----
(***************************************************************************)
(* EPC-QR-Code (GiroCode) generator of src/lib/epcQrCode.ts.               *)
(*                                                                         *)
(* A JavaScript string is a sequence of one-character strings, so that     *)
(* replace, toUpperCase, substring, split and join are computed character  *)
(* by character.  An absent (undefined) value is the marker Undefined.     *)
(* A number is a finite binary fraction whole + frac / AmountDen (every    *)
(* IEEE double is one), NaN or an infinity.                                *)
(***************************************************************************)
EXTENDS Integers, Sequences, FiniteSets, TLC

VARIABLES pc, op, args, result, epcString, qrCalls, qrOutcome, history, pdf

vars == <<pc, op, args, result, epcString, qrCalls, qrOutcome, history, pdf>>

----------------------------------------------------------------------------
(* Characters and strings *)

\* the value of an omitted optional field or argument
Undefined == <<"undefined">>

UpperAZ == <<"A","B","C","D","E","F","G","H","I","J","K","L","M",
             "N","O","P","Q","R","S","T","U","V","W","X","Y","Z">>

LowerAZ == <<"a","b","c","d","e","f","g","h","i","j","k","l","m",
             "n","o","p","q","r","s","t","u","v","w","x","y","z">>

Digits == <<"0","1","2","3","4","5","6","7","8","9">>

Range(f) == {f[i] : i \in DOMAIN f}

\* the characters the regular expression class \s matches
IsSpace(c) == c \in {" ", "\t", "\n", "\r", "\f"}

\* String.prototype.replace(/\s/g, "")
StripWhitespace(s) == SelectSeq(s, LAMBDA c : ~IsSpace(c))

ToUpperChar(c) ==
    IF c \in Range(LowerAZ)
    THEN UpperAZ[CHOOSE i \in DOMAIN LowerAZ : LowerAZ[i] = c]
    ELSE c

\* String.prototype.toUpperCase
ToUpperCase(s) == [i \in 1..Len(s) |-> ToUpperChar(s[i])]

\* String.prototype.substring(0, n)
Substring0(s, n) == SubSeq(s, 1, IF n < Len(s) THEN n ELSE Len(s))

\* String.prototype.startsWith
StartsWith(s, p) == Len(p) <= Len(s) /\ SubSeq(s, 1, Len(p)) = p

RECURSIVE Split(_, _)
\* String.prototype.split(sep) for a one-character separator
Split(s, sep) ==
    IF \A i \in 1..Len(s) : s[i] # sep
    THEN <<s>>
    ELSE LET k == CHOOSE i \in 1..Len(s) :
                      s[i] = sep /\ \A j \in 1..(i - 1) : s[j] # sep
         IN  <<SubSeq(s, 1, k - 1)>> \o Split(SubSeq(s, k + 1, Len(s)), sep)

RECURSIVE Join(_, _)
\* Array.prototype.join(sep)
Join(parts, sep) ==
    IF parts = <<>> THEN <<>>
    ELSE IF Len(parts) = 1 THEN parts[1]
    ELSE parts[1] \o <<sep>> \o Join(Tail(parts), sep)

\* JavaScript truthiness of an optional string: !s holds for undefined and ""
Falsy(s) == s = Undefined \/ s = <<>>

----------------------------------------------------------------------------
(* Regular expressions of the form ^ piece piece ... $, each piece a       *)
(* character class with the repetition counts it allows.                   *)

InClass(c, cls) ==
    CASE cls = "AZ"   -> c \in Range(UpperAZ)
      [] cls = "09"   -> c \in Range(Digits)
      [] cls = "AZ09" -> c \in Range(UpperAZ) \cup Range(Digits)

RECURSIVE MatchFrom(_, _, _, _)
\* pieces k.. of re match s from position i up to its end
MatchFrom(re, k, s, i) ==
    IF k > Len(re) THEN i = Len(s) + 1
    ELSE \E n \in re[k].counts :
            /\ i + n - 1 <= Len(s)
            /\ \A j \in i..(i + n - 1) : InClass(s[j], re[k].cls)
            /\ MatchFrom(re, k + 1, s, i + n)

RegexTest(re, s) == MatchFrom(re, 1, s, 1)

\* /^[A-Z]{2}[0-9]{2}[A-Z0-9]{4,30}$/
IbanRegex ==
    << [cls |-> "AZ",   counts |-> {2}],
       [cls |-> "09",   counts |-> {2}],
       [cls |-> "AZ09", counts |-> 4..30] >>

\* /^[A-Z]{4}[A-Z]{2}[A-Z0-9]{2}([A-Z0-9]{3})?$/
BicRegex ==
    << [cls |-> "AZ",   counts |-> {4}],
       [cls |-> "AZ",   counts |-> {2}],
       [cls |-> "AZ09", counts |-> {2}],
       [cls |-> "AZ09", counts |-> {0, 3}] >>

\* validateIban without the removal of whitespace
validateIban_NoStrip(iban) == RegexTest(IbanRegex, ToUpperCase(iban))

validateIban(iban) == RegexTest(IbanRegex, ToUpperCase(StripWhitespace(iban)))

\* validateBic whose pattern lacks the optional branch code
validateBic_NoBranch(bic) ==
    IF Falsy(bic) THEN TRUE
    ELSE RegexTest(SubSeq(BicRegex, 1, 3), ToUpperCase(StripWhitespace(bic)))

validateBic(bic) ==
    IF Falsy(bic) THEN TRUE
    ELSE RegexTest(BicRegex, ToUpperCase(StripWhitespace(bic)))

----------------------------------------------------------------------------
(* Numbers *)

\* amounts are multiples of 1 / 2^FracBits
FracBits == 10

AmountDen == 2 ^ FracBits

Finite(neg, whole, frac) ==
    [kind |-> "finite", neg |-> neg, whole |-> whole, frac |-> frac]

NaN == [kind |-> "NaN", neg |-> FALSE, whole |-> 0, frac |-> 0]

Infinity(neg) == [kind |-> "Infinity", neg |-> neg, whole |-> 0, frac |-> 0]

\* a > 0
GreaterThanZero(a) ==
    \/ a.kind = "Infinity" /\ ~a.neg
    \/ a.kind = "finite" /\ ~a.neg /\ (a.whole > 0 \/ a.frac > 0)

\* a <= 0
AtMostZero(a) ==
    \/ a.kind = "Infinity" /\ a.neg
    \/ a.kind = "finite" /\ (a.neg \/ (a.whole = 0 /\ a.frac = 0))

MaxWhole == 999999999

MaxCents == 99

\* a > 999999999.99: no multiple of 1 / AmountDen lies between the decimal
\* 999999999.99 and the double nearest to it
GreaterThanMax(a) ==
    \/ a.kind = "Infinity" /\ ~a.neg
    \/ a.kind = "finite" /\ ~a.neg
         /\ (a.whole > MaxWhole
             \/ (a.whole = MaxWhole /\ a.frac * 100 > MaxCents * AmountDen))

RECURSIVE NatToString(_)
NatToString(n) ==
    IF n < 10 THEN <<Digits[n + 1]>>
    ELSE NatToString(n \div 10) \o <<Digits[(n % 10) + 1]>>

\* Number.prototype.toFixed(2): the integer n nearest to 100 * |a| (the larger
\* of two equally near), written with its last two digits after the point
ToFixed2(a) ==
    IF a.kind = "NaN" THEN <<"N","a","N">>
    ELSE IF a.kind = "Infinity"
    THEN (IF a.neg THEN <<"-">> ELSE <<>>) \o <<"I","n","f","i","n","i","t","y">>
    ELSE LET c == (a.frac * 200 + AmountDen) \div (2 * AmountDen)
             w == IF c = 100 THEN a.whole + 1 ELSE a.whole
             d == IF c = 100 THEN 0 ELSE c
         IN  (IF a.neg /\ (a.whole > 0 \/ a.frac > 0) THEN <<"-">> ELSE <<>>)
               \o NatToString(w) \o <<".">>
               \o <<Digits[(d \div 10) + 1], Digits[(d % 10) + 1]>>

\* formatAmount without the upper limit
formatAmount_NoMax(amount) ==
    IF AtMostZero(amount) THEN <<>> ELSE <<"E","U","R">> \o ToFixed2(amount)

formatAmount(amount) ==
    IF AtMostZero(amount) \/ GreaterThanMax(amount) THEN <<>>
    ELSE <<"E","U","R">> \o ToFixed2(amount)

\* truncate keeping one character too many
truncate_OffByOne(str, maxLength) ==
    IF Falsy(str) THEN <<>> ELSE Substring0(str, maxLength + 1)

truncate(str, maxLength) ==
    IF Falsy(str) THEN <<>> ELSE Substring0(str, maxLength)

----------------------------------------------------------------------------
(* generateEpcString *)

NameMax == 70

ReferenceMax == 140

MessageMax == 140

ErrRequired == "Name and IBAN are required for EPC-QR-Code"

ErrIban == "Invalid IBAN format"

ErrBic == "Invalid BIC format"

Throw(e) == [kind |-> "throw", error |-> e]

Return(v) == [kind |-> "return", value |-> v]

NoResult == [kind |-> "none"]

\* data.reference || ""
OrEmpty(s) == IF Falsy(s) THEN <<>> ELSE s

\* EpcLines with the IBAN and the BIC stripped of whitespace but not upper-cased
EpcLines_NoUpper(data) ==
    LET cleanIban == StripWhitespace(data.iban)
        cleanBic  == IF Falsy(data.bic) THEN <<>> ELSE StripWhitespace(data.bic)
        name      == truncate(data.name, NameMax)
        amount    == IF GreaterThanZero(data.amount)
                     THEN formatAmount(data.amount) ELSE <<>>
        reference == truncate(OrEmpty(data.reference), ReferenceMax)
        message   == truncate(OrEmpty(data.message), MessageMax)
    IN  << <<"B","C","D">>, <<"0","0","2">>, <<"1">>, <<"S","C","T">>,
           cleanBic, name, cleanIban, amount, <<>>, reference, message >>

\* the array `lines` built from the cleaned and formatted fields
EpcLines(data) ==
    LET cleanIban == ToUpperCase(StripWhitespace(data.iban))
        cleanBic  == IF Falsy(data.bic) THEN <<>>
                     ELSE ToUpperCase(StripWhitespace(data.bic))
        name      == truncate(data.name, NameMax)
        amount    == IF GreaterThanZero(data.amount)
                     THEN formatAmount(data.amount) ELSE <<>>
        reference == truncate(OrEmpty(data.reference), ReferenceMax)
        message   == truncate(OrEmpty(data.message), MessageMax)
    IN  << <<"B","C","D">>, <<"0","0","2">>, <<"1">>, <<"S","C","T">>,
           cleanBic, name, cleanIban, amount, <<>>, reference, message >>

\* generateEpcString whose IBAN pattern is one shared object with the global
\* flag: after a test that matched, the next test starts behind the match and
\* fails
generateEpcString_SharedRegex(data) ==
    IF Falsy(data.name) \/ Falsy(data.iban) THEN Throw(ErrRequired)
    ELSE IF \/ ~validateIban(data.iban)
            \/ /\ history # <<>>
               /\ history[Len(history)].result # Throw(ErrRequired)
               /\ history[Len(history)].result # Throw(ErrIban)
         THEN Throw(ErrIban)
    ELSE IF ~Falsy(data.bic) /\ ~validateBic(data.bic) THEN Throw(ErrBic)
    ELSE Return(Join(EpcLines(data), "\n"))

\* generateEpcString that validates the BIC before the IBAN
generateEpcString_BicFirst(data) ==
    IF Falsy(data.name) \/ Falsy(data.iban) THEN Throw(ErrRequired)
    ELSE IF ~Falsy(data.bic) /\ ~validateBic(data.bic) THEN Throw(ErrBic)
    ELSE IF ~validateIban(data.iban) THEN Throw(ErrIban)
    ELSE Return(Join(EpcLines(data), "\n"))

\* generateEpcString requiring only one of name and IBAN
generateEpcString_EitherField(data) ==
    IF Falsy(data.name) /\ Falsy(data.iban) THEN Throw(ErrRequired)
    ELSE IF ~validateIban(OrEmpty(data.iban)) THEN Throw(ErrIban)
    ELSE IF ~Falsy(data.bic) /\ ~validateBic(data.bic) THEN Throw(ErrBic)
    ELSE Return(Join(EpcLines(data), "\n"))

generateEpcString(data) ==
    IF Falsy(data.name) \/ Falsy(data.iban) THEN Throw(ErrRequired)
    ELSE IF ~validateIban(data.iban) THEN Throw(ErrIban)
    ELSE IF ~Falsy(data.bic) /\ ~validateBic(data.bic) THEN Throw(ErrBic)
    ELSE Return(Join(EpcLines(data), "\n"))

----------------------------------------------------------------------------
(* canGenerateEpcQrCode *)

EUR == <<"E","U","R">>

\* canGenerateEpcQrCode that looks at the currency only
canGenerateEpcQrCode_NoIbanCheck(iban, currency) ==
    IF Falsy(iban) THEN FALSE
    ELSE LET currencyCode ==
                 IF currency = Undefined THEN <<>>
                 ELSE ToUpperCase(Split(currency, " ")[1])
         IN  ~(currencyCode # <<>> /\ currencyCode # EUR)

\* canGenerateEpcQrCode comparing the code without upper-casing it
canGenerateEpcQrCode_NoUpper(iban, currency) ==
    IF Falsy(iban) THEN FALSE
    ELSE LET currencyCode ==
                 IF currency = Undefined THEN <<>> ELSE Split(currency, " ")[1]
         IN  IF currencyCode # <<>> /\ currencyCode # EUR THEN FALSE
             ELSE validateIban(iban)

canGenerateEpcQrCode(iban, currency) ==
    IF Falsy(iban) THEN FALSE
    ELSE LET currencyCode ==
                 IF currency = Undefined THEN <<>>
                 ELSE ToUpperCase(Split(currency, " ")[1])
         IN  IF currencyCode # <<>> /\ currencyCode # EUR THEN FALSE
             ELSE validateIban(iban)

----------------------------------------------------------------------------
(* generateEpcQrCode and the QR collaborator *)

DefaultSize == 200

\* options.key, or the destructuring default when the key is not given
Option(options, key, default) ==
    IF key \in DOMAIN options THEN options[key] ELSE default

DataUrlPrefix ==
    <<"d","a","t","a",":","i","m","a","g","e","/","p","n","g",";",
      "b","a","s","e","6","4",",">>

\* the invocation generateEpcQrCodeBase64 makes: QRCode.toDataURL(epcString, ...)
ToDataUrlCall(text, options) ==
    [fn |-> "toDataURL", text |-> text,
     width |-> Option(options, "size", DefaultSize), margin |-> 1,
     errorCorrectionLevel |-> Option(options, "errorCorrectionLevel", "M"),
     type |-> "image/png"]

\* the invocation generateEpcQrCodeSvg makes: QRCode.toString(epcString, ...)
ToStringCall(text, options) ==
    [fn |-> "toString", text |-> text,
     width |-> Option(options, "size", DefaultSize), margin |-> 1,
     errorCorrectionLevel |-> Option(options, "errorCorrectionLevel", "M"),
     type |-> "svg"]

\* the function the switch on format delegates to
Delegate(format) ==
    IF format = "svg" THEN "generateEpcQrCodeSvg" ELSE "generateEpcQrCodeBase64"

\* the inner function that runs for an exported operation
InnerFunction(operation, options) ==
    IF operation = "generateEpcQrCode"
    THEN Delegate(Option(options, "format", "dataUrl"))
    ELSE operation

QrCall(operation, text, options) ==
    IF InnerFunction(operation, options) = "generateEpcQrCodeSvg"
    THEN ToStringCall(text, options)
    ELSE ToDataUrlCall(text, options)

\* String.prototype.replace(/^data:image\/png;base64,/, "")
RemoveDataUrlPrefix(s) ==
    IF StartsWith(s, DataUrlPrefix)
    THEN SubSeq(s, Len(DataUrlPrefix) + 1, Len(s)) ELSE s

\* PostProcess that leaves the data URL prefix in place
PostProcess_KeepPrefix(operation, options, out) == out

\* what the operation returns once the collaborator has delivered `out`
PostProcess(operation, options, out) ==
    IF operation = "generateEpcQrCode"
         /\ Option(options, "format", "dataUrl") = "base64"
    THEN RemoveDataUrlPrefix(out)
    ELSE out

----------------------------------------------------------------------------
(* Inputs *)

\* how far past a length limit the generated strings go
MaxOver == 1

\* the character c, n times
Rep(c, n) == [i \in 1..n |-> c]

JaneDoe == <<"J","a","n","e"," ","D","o","e">>

SpacedIban ==
    <<"D","E","8","9"," ","3","7","0","4"," ","0","0","4","4"," ",
      "0","5","3","2"," ","0","1","3","0"," ","0","0">>

PlainIban ==
    <<"D","E","8","9","3","7","0","4","0","0","4","4",
      "0","5","3","2","0","1","3","0","0","0">>

LowerIban ==
    <<"d","e","8","9"," ","3","7","0","4"," ","0","0","4","4"," ",
      "0","5","3","2"," ","0","1","3","0"," ","0","0">>

InvalidIban == <<"I","N","V","A","L","I","D">>

IbanHeads ==
    { <<"D","E","8","9">>, <<"d","e","8","9">>, <<"D","E"," ","8","\t","9">>,
      <<"D","3","8","9">>, <<"D","E","X","9">>, <<"D","E","8">> }

IbanBodyLens == {0} \cup (3..(4 + MaxOver)) \cup (29..(30 + MaxOver))

IbanSweep ==
    { h \o Rep(c, n) \o t :
        h \in IbanHeads, c \in {"0", "z", "-"}, n \in IbanBodyLens,
        t \in {<<>>, <<"\n">>, <<"!">>} }

IbanSamples == {Undefined, <<>>, SpacedIban, LowerIban, InvalidIban}

Ibans == IbanSamples \cup IbanSweep \cup {PlainIban, <<" ">>}

BicHeads ==
    { <<"C","O","B","A","D","E">>, <<"c","o","b","a","d","e">>,
      <<"C","O"," ","B","A","\n","D","E">>, <<"C","0","B","A","D","E">>,
      <<"C","O","B","A","D">> }

BicSweep ==
    { h \o Rep(c, n) : h \in BicHeads, c \in {"F", "f", "1", "-"},
                       n \in 0..(5 + MaxOver) }

BicSamples ==
    { Undefined, <<>>, <<"c","o","b","a"," ","d","e"," ","f","f">>,
      <<"B","A","D","-","B","I","C">> }

Bics == BicSamples \cup BicSweep \cup {<<" ">>}

NameSamples == {Undefined, <<>>, JaneDoe, <<"A","\n","B">>, Rep("n", NameMax + 1)}

NameSweep ==
    { Rep(c, n) : c \in {"x", " "},
                  n \in {1} \cup ((NameMax - 1)..(NameMax + MaxOver)) }
    \cup { Rep("x", NameMax - 1) \o <<"\n", "y">> }

TextSamples == {Undefined, <<"R","F","\n","1","8">>, Rep("r", ReferenceMax + 1)}

TextSweep ==
    { Rep("r", n) :
        n \in {0, 1, 200} \cup ((ReferenceMax - 1)..(ReferenceMax + MaxOver)) }
    \cup { <<"R","F","1","8">>, Rep("r", ReferenceMax - 1) \o <<"\n", "s">> }

AmountSamples ==
    { Finite(FALSE, 12, AmountDen \div 2), Finite(FALSE, 0, 0),
      Finite(FALSE, MaxWhole + 1, 0), Finite(FALSE, 0, 1) }

AmountSweep ==
    { Finite(FALSE, w, f) :
        w \in {0, 1, 9, 1234, MaxWhole - 1, MaxWhole, MaxWhole + 1},
        f \in {0, 1, AmountDen \div 8, AmountDen \div 2, AmountDen - 1} }
    \cup { Finite(FALSE, w, f) : w \in {0, MaxWhole}, f \in 0..(AmountDen - 1) }
    \cup { Finite(TRUE, w, f) : w \in {0, 12}, f \in {0, 1, AmountDen \div 2} }
    \cup { NaN, Infinity(FALSE), Infinity(TRUE) }

Payload(name, iban, bic, amount, reference, message) ==
    [name |-> name, iban |-> iban, bic |-> bic, amount |-> amount,
     reference |-> reference, message |-> message]

\* every combination of the samples, and each field swept with the others fixed
Payloads ==
    { Payload(n, i, b, a, r, m) :
        n \in NameSamples, i \in IbanSamples, b \in BicSamples,
        a \in AmountSamples, r \in TextSamples, m \in TextSamples }
    \cup { Payload(JaneDoe, i, Undefined, Finite(FALSE, 12, 0), Undefined, Undefined) :
             i \in Ibans }
    \cup { Payload(JaneDoe, SpacedIban, b, Finite(FALSE, 12, 0), Undefined, Undefined) :
             b \in Bics }
    \cup { Payload(n, SpacedIban, Undefined, Finite(FALSE, 12, 0), Undefined, Undefined) :
             n \in NameSweep }
    \cup { Payload(JaneDoe, SpacedIban, Undefined, a, Undefined, Undefined) :
             a \in AmountSweep }
    \cup { Payload(JaneDoe, SpacedIban, Undefined, Finite(FALSE, 12, 0), r, m) :
             r \in TextSweep, m \in TextSweep }

Currencies ==
    { Undefined, <<>>, EUR, <<"e","u","r">>,
      <<"E","U","R"," ","-"," ","E","u","r","o">>,
      <<"U","S","D">>, <<"U","S","D"," ","-"," ","D","o","l","l","a","r">>,
      <<" ","E","U","R">>, <<" ","U","S","D">>, <<"E","U","R","O">>, <<"E","U">>,
      <<"E","u","r","o"," ","-"," ","E","U","R">>,
      <<"E","U","R","\t","-"," ","E","u","r","o">> }

\* payloads handed to the QR operations: one per outcome of generateEpcString
QrPayloads ==
    { Payload(n, i, b, Finite(FALSE, 12, AmountDen \div 2), r, Undefined) :
        n \in {<<>>, JaneDoe}, i \in {SpacedIban, InvalidIban},
        b \in {Undefined, <<"B","A","D","-","B","I","C">>},
        r \in {Undefined, <<"R","F","1","8">>} }

Formats == {"svg", "base64", "dataUrl", "png"}

OptionSets ==
    { [x \in {} |-> 0] }
    \cup { [format |-> f] : f \in Formats }
    \cup { [format |-> f, size |-> 300, errorCorrectionLevel |-> "H"] : f \in Formats }
    \cup { [size |-> 300], [errorCorrectionLevel |-> "Q"] }

\* what the collaborator can deliver: toDataURL a PNG data URL, toString markup
Base64Bodies ==
    { <<"i","V","B","O","R","w","0","K","G","g","o","=">>, <<"A","A","=","=">> }

CollaboratorOutputs(call) ==
    IF call.fn = "toDataURL"
    THEN { DataUrlPrefix \o b : b \in Base64Bodies }
    ELSE { <<"<","s","v","g","/",">">>, <<"<","s","v","g",">","<","/","s","v","g",">">> }

\* errors the collaborator raises
CollaboratorErrors == {"Invalid error correction level", "No input text"}

----------------------------------------------------------------------------
(* The caller: one operation at a time, from its call to its outcome *)

NoArgs == [data |-> Undefined]

\* generatePdfBuffer is not running
NoPdf == [browser |-> "undefined"]

Init ==
    /\ pc = "idle"
    /\ op = "none"
    /\ args = NoArgs
    /\ result = NoResult
    /\ epcString = Undefined
    /\ qrCalls = <<>>
    /\ qrOutcome = NoResult
    /\ history = <<>>
    /\ pdf = NoPdf

\* generateEpcString(data): synchronous, returns or throws
CallGenerateEpcString ==
    /\ pc = "idle"
    /\ \E data \in Payloads :
         /\ op' = "generateEpcString"
         /\ args' = [data |-> data]
         /\ result' = generateEpcString(data)
    /\ pc' = "done"
    /\ UNCHANGED <<epcString, qrCalls, qrOutcome>>
    /\ UNCHANGED <<history, pdf>>

\* canGenerateEpcQrCode(iban, currency): synchronous, returns a boolean
CallCanGenerateEpcQrCode ==
    /\ pc = "idle"
    /\ \E iban \in Ibans, currency \in Currencies :
         /\ op' = "canGenerateEpcQrCode"
         /\ args' = [iban |-> iban, currency |-> currency]
         /\ result' = Return(canGenerateEpcQrCode(iban, currency))
    /\ pc' = "done"
    /\ UNCHANGED <<epcString, qrCalls, qrOutcome>>
    /\ UNCHANGED <<history, pdf>>

QrOperations ==
    {"generateEpcQrCode", "generateEpcQrCodeBase64", "generateEpcQrCodeSvg"}

\* one of the three asynchronous operations is entered; its first statement
\* after destructuring the options is the call of generateEpcString
CallQrOperation ==
    /\ pc = "idle"
    /\ \E operation \in QrOperations, data \in QrPayloads, options \in OptionSets :
         /\ op' = operation
         /\ args' = [data |-> data, options |-> options]
    /\ pc' = "encode"
    /\ UNCHANGED <<result, epcString, qrCalls, qrOutcome>>
    /\ UNCHANGED <<history, pdf>>

\* EncodeStep with the collaborator invoked before the payload is validated
EncodeStep_InvokeFirst ==
    /\ pc = "encode"
    /\ LET r == generateEpcString(args.data)
           text == IF r.kind = "throw" THEN <<>> ELSE r.value
       IN  /\ qrCalls' = Append(qrCalls, QrCall(op, text, args.options))
           /\ IF r.kind = "throw"
              THEN /\ result' = r
                   /\ pc' = "done"
                   /\ UNCHANGED epcString
              ELSE /\ epcString' = r.value
                   /\ pc' = "await"
                   /\ UNCHANGED result
    /\ UNCHANGED <<op, args, qrOutcome>>
    /\ UNCHANGED <<history, pdf>>

\* const epcString = generateEpcString(data): a throw rejects the promise, a
\* return is followed by the invocation of the collaborator, which is awaited
EncodeStep ==
    /\ pc = "encode"
    /\ LET r == generateEpcString(args.data)
       IN  IF r.kind = "throw"
           THEN /\ result' = r
                /\ pc' = "done"
                /\ UNCHANGED <<epcString, qrCalls>>
           ELSE /\ epcString' = r.value
                /\ qrCalls' = Append(qrCalls, QrCall(op, r.value, args.options))
                /\ pc' = "await"
                /\ UNCHANGED result
    /\ UNCHANGED <<op, args, qrOutcome>>
    /\ UNCHANGED <<history, pdf>>

\* the collaborator's promise is fulfilled
QrResolve ==
    /\ pc = "await"
    /\ \E out \in CollaboratorOutputs(qrCalls[Len(qrCalls)]) :
         /\ qrOutcome' = Return(out)
         /\ result' = Return(PostProcess(op, args.options, out))
    /\ pc' = "done"
    /\ UNCHANGED <<op, args, epcString, qrCalls>>
    /\ UNCHANGED <<history, pdf>>

\* QrReject that hides the failure behind an empty result
QrReject_Fallback ==
    /\ pc = "await"
    /\ \E e \in CollaboratorErrors :
         /\ qrOutcome' = Throw(e)
         /\ result' = Return(<<>>)
    /\ pc' = "done"
    /\ UNCHANGED <<op, args, epcString, qrCalls>>
    /\ UNCHANGED <<history, pdf>>

\* the collaborator's promise is rejected
QrReject ==
    /\ pc = "await"
    /\ \E e \in CollaboratorErrors :
         /\ qrOutcome' = Throw(e)
         /\ result' = Throw(e)
    /\ pc' = "done"
    /\ UNCHANGED <<op, args, epcString, qrCalls>>
    /\ UNCHANGED <<history, pdf>>

\* the caller has the outcome; nothing of the call is kept
Finish ==
    /\ pc = "done"
    /\ pc' = "idle"
    /\ op' = "none"
    /\ args' = NoArgs
    /\ result' = NoResult
    /\ epcString' = Undefined
    /\ qrCalls' = <<>>
    /\ qrOutcome' = NoResult
    /\ UNCHANGED <<history, pdf>>

Next ==
    \/ CallGenerateEpcString
    \/ CallCanGenerateEpcQrCode
    \/ CallQrOperation
    \/ EncodeStep
    \/ QrResolve
    \/ QrReject
    \/ Finish

Spec == Init /\ [][Next]_vars

----------------------------------------------------------------------------
(* Properties of generateEpcString                                         *)

\* a finished call of generateEpcString, and whether it returned text
EncodeDone == pc = "done" /\ op = "generateEpcString"

EncodeReturned == EncodeDone /\ result.kind = "return"

Letter(c) == c \in Range(UpperAZ)

Digit(c) == c \in Range(Digits)

\* two letters, two digits, then 4 to 30 letters or digits
IbanShape(c) ==
    /\ Len(c) >= 8 /\ Len(c) <= 34
    /\ Letter(c[1]) /\ Letter(c[2]) /\ Digit(c[3]) /\ Digit(c[4])
    /\ \A i \in 5..Len(c) : Letter(c[i]) \/ Digit(c[i])

\* four letters, two letters, two letters or digits, optionally three more
BicShape(c) ==
    /\ Len(c) \in {8, 11}
    /\ \A i \in 1..6 : Letter(c[i])
    /\ \A i \in 7..Len(c) : Letter(c[i]) \/ Digit(c[i])

\* s with its whitespace removed and the rest upper-cased: the k-th
\* character is the k-th character of s that is no whitespace, upper-cased
Normalized(s) ==
    LET kept == {i \in 1..Len(s) : ~IsSpace(s[i])}
        rank(i) == Cardinality({j \in kept : j <= i})
    IN  [k \in 1..Cardinality(kept) |->
            ToUpperChar(s[CHOOSE i \in kept : rank(i) = k])]

\* the payload of the finished call
Data == args.data

\* C1: for every payload that passes validation, whatever name, reference and
\* message hold, the returned text splits on the newline character into
\* exactly 11 lines, lines 1-4 being BCD, 002, 1, SCT and line 9 empty.
C1_ElevenLines ==
    EncodeReturned =>
        LET l == Split(result.value, "\n")
        IN  /\ Len(l) = 11
            /\ l[1] = <<"B","C","D">>
            /\ l[2] = <<"0","0","2">>
            /\ l[3] = <<"1">>
            /\ l[4] = <<"S","C","T">>
            /\ l[9] = <<>>

\* C2: generateEpcString fails with the error 'Name and IBAN are required ...'
\* whenever the name or the IBAN is missing or the empty string, and returns
\* no text in that case.
C2_RequiredFields ==
    (EncodeDone /\ (Data.name \in {Undefined, <<>>} \/ Data.iban \in {Undefined, <<>>}))
        => result = [kind |-> "throw",
                     error |-> "Name and IBAN are required for EPC-QR-Code"]

C2_Witness ==
    /\ EncodeDone
    /\ Data.name # Undefined /\ Data.name # <<>>
    /\ Data.iban = <<>>
    /\ result.kind = "throw"

\* C3: with a non-empty name and a non-empty IBAN, generateEpcString fails
\* with 'Invalid IBAN format' exactly when the IBAN, with whitespace removed
\* and upper-cased, is not two letters, two digits and 4 to 30 letters or
\* digits; an IBAN of that shape is never rejected for its format.
C3_IbanFormat ==
    (EncodeDone /\ Data.name \notin {Undefined, <<>>}
                /\ Data.iban \notin {Undefined, <<>>})
        => (result = [kind |-> "throw", error |-> "Invalid IBAN format"]
              <=> ~IbanShape(Normalized(Data.iban)))

\* an IBAN one character too long is rejected, and one of the longest accepted
C3_Witness ==
    /\ EncodeDone
    /\ Data.name \notin {Undefined, <<>>}
    /\ Len(Normalized(Data.iban)) = 35
    /\ \A i \in 5..35 : Normalized(Data.iban)[i] = "Z"
    /\ result = [kind |-> "throw", error |-> "Invalid IBAN format"]

\* C4: with a valid name and IBAN, generateEpcString fails with 'Invalid BIC
\* format' exactly when a BIC is supplied (a non-empty string) and, with
\* whitespace removed and upper-cased, is not of the BIC shape; an absent BIC
\* never causes a failure.
C4_BicFormat ==
    (EncodeDone /\ Data.name \notin {Undefined, <<>>}
                /\ Data.iban \notin {Undefined, <<>>}
                /\ IbanShape(Normalized(Data.iban)))
        => /\ result = [kind |-> "throw", error |-> "Invalid BIC format"]
                <=> (Data.bic \notin {Undefined, <<>>}
                       /\ ~BicShape(Normalized(Data.bic)))
           /\ Data.bic = Undefined => result.kind = "return"

\* a BIC of nine characters is rejected
C4_Witness ==
    /\ EncodeDone
    /\ Data.bic # Undefined
    /\ Len(Normalized(Data.bic)) = 9
    /\ \A i \in 1..9 : Letter(Normalized(Data.bic)[i])
    /\ result = [kind |-> "throw", error |-> "Invalid BIC format"]

\* the entries of the array the returned text is the join of
Fields == EpcLines(Data)

\* the returned text is its eleven fields joined by newline characters
TextOfFields == result.value = Join(Fields, "\n")

HasNewline(s) == \E i \in 1..Len(s) : s[i] = "\n"

\* C5: on every successful call the IBAN field equals the input IBAN with
\* all whitespace removed and upper-cased (8 to 34 characters of the IBAN
\* shape), and the BIC field equals the input BIC normalized the same way,
\* or the empty string when no BIC was given (0, 8 or 11 characters).
C5_Normalization ==
    EncodeReturned =>
        /\ TextOfFields
        /\ Fields[7] = Normalized(Data.iban)
        /\ IbanShape(Fields[7])
        /\ Fields[5] = IF Data.bic \in {Undefined, <<>>} THEN <<>>
                       ELSE Normalized(Data.bic)
        /\ Len(Fields[5]) \in {0, 8, 11}
        /\ Split(result.value, "\n")[5] = Fields[5]
        /\ ~HasNewline(Data.name) => Split(result.value, "\n")[7] = Fields[7]

\* lower-case input with blanks, for the IBAN and for the BIC
C5_Witness ==
    /\ EncodeReturned
    /\ Data.iban # Fields[7]
    /\ Data.bic # Undefined /\ Data.bic # Fields[5]
    /\ Len(Fields[5]) = 8

\* the number the decimal digits s write
RECURSIVE DigitsValue(_)
DigitsValue(s) ==
    IF s = <<>> THEN 0
    ELSE 10 * DigitsValue(SubSeq(s, 1, Len(s) - 1))
           + (CHOOSE d \in 0..9 : Digits[d + 1] = s[Len(s)])

\* 0 < a <= 999999999.99
AmountInRange(a) ==
    /\ a.kind = "finite" /\ ~a.neg
    /\ a.whole + a.frac > 0
    /\ a.whole <= 999999999
    /\ a.whole = 999999999 => a.frac * 100 <= 99 * AmountDen

\* f is EUR and the amount a with exactly two decimal digits: digits, a
\* point, two digits, no needless leading zero, and the number written is
\* the multiple of 0.01 nearest to a (the larger of two equally near)
TwoDecimalsOf(f, a) ==
    /\ Len(f) >= 7 /\ Len(f) <= 16
    /\ SubSeq(f, 1, 3) = <<"E","U","R">>
    /\ f[Len(f) - 2] = "."
    /\ \A i \in (4..Len(f)) \ {Len(f) - 2} : Digit(f[i])
    /\ Len(f) > 7 => f[4] # "0"
    /\ LET w    == DigitsValue(SubSeq(f, 4, Len(f) - 3))
           c    == DigitsValue(SubSeq(f, Len(f) - 1, Len(f)))
           \* 2 * 100 * AmountDen * (written - a)
           err2 == 2 * (((w - a.whole) * 100 + c) * AmountDen - a.frac * 100)
       IN  /\ w - a.whole \in {0, 1}
           /\ err2 > 0 - AmountDen /\ err2 <= AmountDen

\* C6: on every successful call the amount field is EUR followed by the
\* amount with exactly two decimal digits when 0 < amount <= 999999999.99,
\* and the empty string for every other amount; an amount out of range never
\* makes the call fail.
C6_AmountField ==
    /\ EncodeReturned =>
        /\ TextOfFields
        /\ IF AmountInRange(Data.amount)
           THEN TwoDecimalsOf(Fields[8], Data.amount)
           ELSE Fields[8] = <<>>
    /\ (EncodeDone /\ result.kind = "throw") =>
        \/ Data.name \in {Undefined, <<>>} \/ Data.iban \in {Undefined, <<>>}
        \/ ~IbanShape(Normalized(Data.iban))
        \/ Data.bic \notin {Undefined, <<>>} /\ ~BicShape(Normalized(Data.bic))

\* the largest amount that is written, rounded up to the maximum
C6_Witness ==
    /\ EncodeReturned
    /\ Data.amount.whole = 999999999
    /\ Fields[8] = <<"E","U","R","9","9","9","9","9","9","9","9","9",".","9","9">>
    /\ Data.amount.frac * 100 < 99 * AmountDen

\* the first n characters of s, all of s when it is shorter
Prefix(o, s, n) ==
    /\ Len(o) = (IF Len(s) < n THEN Len(s) ELSE n)
    /\ \A i \in 1..Len(o) : o[i] = s[i]

\* C7: on every successful call the name field is the first min(70, length)
\* characters of the name, the reference and message fields the first
\* min(140, length) characters of their inputs, or the empty string when the
\* input is absent; over-long text never causes a failure.
C7_Truncation ==
    /\ EncodeReturned =>
        /\ TextOfFields
        /\ Prefix(Fields[6], Data.name, 70)
        /\ IF Data.reference = Undefined THEN Fields[10] = <<>>
           ELSE Prefix(Fields[10], Data.reference, 140)
        /\ IF Data.message = Undefined THEN Fields[11] = <<>>
           ELSE Prefix(Fields[11], Data.message, 140)
    /\ (EncodeDone /\ Data.name \notin {Undefined, <<>>}
                   /\ Data.iban \notin {Undefined, <<>>}
                   /\ IbanShape(Normalized(Data.iban))
                   /\ (Data.bic \in {Undefined, <<>>} \/ BicShape(Normalized(Data.bic))))
          => result.kind = "return"

\* a reference of 200 characters comes out with 140, a name of 71 with 70
C7_Witness ==
    /\ EncodeReturned
    /\ Data.reference # Undefined /\ Len(Data.reference) = 200
    /\ Len(Fields[10]) = 140

----------------------------------------------------------------------------
(* Properties of canGenerateEpcQrCode                                      *)

\* the part of the label before its first space, upper-cased
CodeOfLabel(label) ==
    LET n == Cardinality({i \in 1..Len(label) :
                            \A j \in 1..i : label[j] # " "})
    IN  [i \in 1..n |-> ToUpperChar(label[i])]

\* C8: canGenerateEpcQrCode(iban, currency) returns false when the IBAN is
\* absent or empty; false when the part of the currency label before its
\* first space, upper-cased, is non-empty and not exactly EUR; and in every
\* other case the result of the structural check of that IBAN.
C8_CanGenerate ==
    (pc = "done" /\ op = "canGenerateEpcQrCode") =>
        /\ result.kind = "return"
        /\ result.value =
             IF args.iban \in {Undefined, <<>>} THEN FALSE
             ELSE IF /\ args.currency # Undefined
                     /\ CodeOfLabel(args.currency) # <<>>
                     /\ CodeOfLabel(args.currency) # <<"E","U","R">>
             THEN FALSE
             ELSE IbanShape(Normalized(args.iban))

\* a decorated lower-case label with an IBAN written in groups
C8_Witness ==
    /\ pc = "done" /\ op = "canGenerateEpcQrCode"
    /\ args.iban # Undefined /\ args.currency # Undefined
    /\ Len(args.currency) > 3
    /\ CodeOfLabel(args.currency) = <<"E","U","R">>
    /\ \E i \in 1..Len(args.iban) : args.iban[i] = " "
    /\ result = [kind |-> "return", value |-> TRUE]

----------------------------------------------------------------------------
(* Properties of generateEpcQrCode                                         *)

Format == IF "format" \in DOMAIN args.options THEN args.options.format ELSE "none"

\* C9: in generateEpcQrCode, for each format, generateEpcString runs before
\* the QR collaborator is invoked; when it fails the collaborator is never
\* invoked and the caller receives that same validation error.
C9_EncodeFirst ==
    op \in {"generateEpcQrCode", "generateEpcQrCodeBase64", "generateEpcQrCodeSvg"} =>
        /\ pc = "encode" => qrCalls = <<>> /\ epcString = Undefined
        /\ qrCalls # <<>> =>
             /\ generateEpcString(Data) = [kind |-> "return", value |-> epcString]
             /\ \A i \in 1..Len(qrCalls) : qrCalls[i].text = epcString
        /\ (pc = "done" /\ generateEpcString(Data).kind = "throw") =>
             /\ qrCalls = <<>>
             /\ qrOutcome.kind = "none"
             /\ result = generateEpcString(Data)

\* an invalid IBAN given to generateEpcQrCode with format svg
C9_Witness ==
    /\ pc = "done" /\ op = "generateEpcQrCode"
    /\ Format = "svg"
    /\ result = [kind |-> "throw", error |-> "Invalid IBAN format"]
    /\ qrCalls = <<>>

\* C10: generateEpcQrCode selects exactly one post-processing by format:
\* svg returns the collaborator's vector text; base64 returns the
\* collaborator's data URL with the prefix data:image/png;base64, removed,
\* so that the result never starts with that prefix; dataUrl, no format and
\* an unrecognized format return the collaborator's data URL unchanged.
C10_FormatSelection ==
    (pc = "done" /\ op = "generateEpcQrCode" /\ result.kind = "return") =>
        /\ Len(qrCalls) = 1
        /\ qrOutcome.kind = "return"
        /\ CASE Format = "svg" ->
                  /\ qrCalls[1].fn = "toString" /\ qrCalls[1].type = "svg"
                  /\ result.value = qrOutcome.value
             [] Format = "base64" ->
                  /\ qrCalls[1].fn = "toDataURL" /\ qrCalls[1].type = "image/png"
                  /\ DataUrlPrefix \o result.value = qrOutcome.value
                  /\ ~StartsWith(result.value, DataUrlPrefix)
             [] OTHER ->
                  /\ qrCalls[1].fn = "toDataURL" /\ qrCalls[1].type = "image/png"
                  /\ result.value = qrOutcome.value
                  /\ StartsWith(result.value, DataUrlPrefix)

C10_Witness ==
    /\ pc = "done" /\ op = "generateEpcQrCode" /\ result.kind = "return"
    /\ Format = "base64"
    /\ result.value # qrOutcome.value

\* C11: in every generateEpcQrCode call with a valid payload the QR
\* collaborator is invoked exactly once; when that invocation fails, the
\* failure reaches the caller as the same error, with no second invocation
\* and no fallback value returned.
C11_OneInvocation ==
    (/\ op \in {"generateEpcQrCode", "generateEpcQrCodeBase64", "generateEpcQrCodeSvg"}
     /\ pc \in {"await", "done"}
     /\ generateEpcString(Data).kind = "return") =>
        /\ Len(qrCalls) = 1
        /\ pc = "done" => qrOutcome.kind \in {"return", "throw"}
        /\ (pc = "done" /\ qrOutcome.kind = "throw") =>
             result = [kind |-> "throw", error |-> qrOutcome.error]

C11_Witness ==
    /\ pc = "done" /\ op = "generateEpcQrCode"
    /\ Format = "base64"
    /\ qrOutcome.kind = "throw"
    /\ result.kind = "throw"
    /\ Len(qrCalls) = 1

----------------------------------------------------------------------------
(* Further properties of generateEpcString                                 *)

MissingField == Data.name \in {Undefined, <<>>} \/ Data.iban \in {Undefined, <<>>}

BadIban == ~IbanShape(Normalized(Data.iban))

BadBic == Data.bic \notin {Undefined, <<>>} /\ ~BicShape(Normalized(Data.bic))

\* C14: when a payload violates several validation rules at once,
\* generateEpcString reports exactly one error, chosen in the fixed order
\* missing name/IBAN, then invalid IBAN, then invalid BIC; an invalid IBAN
\* together with an invalid BIC yields 'Invalid IBAN format', and no output
\* text is produced on any failing path.
C14_ErrorOrder ==
    EncodeDone =>
        /\ IF MissingField
           THEN result = [kind |-> "throw",
                          error |-> "Name and IBAN are required for EPC-QR-Code"]
           ELSE IF BadIban
           THEN result = [kind |-> "throw", error |-> "Invalid IBAN format"]
           ELSE IF BadBic
           THEN result = [kind |-> "throw", error |-> "Invalid BIC format"]
           ELSE result.kind = "return"
        /\ result.kind = "throw" => DOMAIN result = {"kind", "error"}

\* an invalid IBAN together with an invalid BIC
C14_Witness ==
    /\ EncodeDone
    /\ ~MissingField /\ BadIban /\ BadBic
    /\ result = [kind |-> "throw", error |-> "Invalid IBAN format"]

\* C15: whenever the amount field of an output is non-empty, the amount it
\* states is at least 0.01 and at most 999999999.99; a positive input amount
\* is never encoded as EUR0.00.
C15_AmountBounds ==
    (EncodeReturned /\ Fields[8] # <<>>) =>
        LET f == Fields[8]
            w == DigitsValue(SubSeq(f, 4, Len(f) - 3))
            c == DigitsValue(SubSeq(f, Len(f) - 1, Len(f)))
        IN  /\ TextOfFields
            /\ w > 0 \/ c > 0
            /\ w <= 999999999
            /\ f # <<"E","U","R","0",".","0","0">>

\* C16: if canGenerateEpcQrCode(iban, currency) returns true, then
\* generateEpcString succeeds for every payload with that IBAN, a non-empty
\* name and no BIC, whatever the amount, reference and message.
C16_GateImpliesEncode ==
    (/\ EncodeDone
     /\ Data.name \notin {Undefined, <<>>}
     /\ Data.bic = Undefined
     /\ \E currency \in Currencies : canGenerateEpcQrCode(Data.iban, currency))
        => result.kind = "return"

\* an amount out of range and an over-long reference behind an open gate
C16_Witness ==
    /\ EncodeReturned
    /\ Data.bic = Undefined
    /\ canGenerateEpcQrCode(Data.iban, <<"E","U","R"," ","-"," ","E","u","r","o">>)
    /\ Data.amount.whole > 999999999
    /\ Data.reference # Undefined /\ Len(Data.reference) > 140

----------------------------------------------------------------------------
(* Repeated calls: the finished calls of generateEpcString are recorded in *)
(* history, with other operations running in between.                      *)

\* how many finished calls are recorded
MaxHistory == 3

HistoryPayloads ==
    { Payload(JaneDoe, i, b, Finite(FALSE, 12, AmountDen \div 2), Undefined, Undefined) :
        i \in {SpacedIban, InvalidIban}, b \in {Undefined, <<"B","A","D","-","B","I","C">>} }
    \cup { Payload(<<>>, SpacedIban, Undefined, Finite(FALSE, 0, 0), Undefined, Undefined) }

RecordedCallGenerateEpcString ==
    /\ pc = "idle"
    /\ Len(history) < MaxHistory
    /\ \E data \in HistoryPayloads :
         /\ op' = "generateEpcString"
         /\ args' = [data |-> data]
         /\ result' = generateEpcString(data)
    /\ pc' = "done"
    /\ UNCHANGED <<epcString, qrCalls, qrOutcome, history, pdf>>

BetweenCanGenerateEpcQrCode ==
    /\ pc = "idle"
    /\ \E iban \in {SpacedIban, InvalidIban}, currency \in {Undefined, <<"U","S","D">>} :
         /\ op' = "canGenerateEpcQrCode"
         /\ args' = [iban |-> iban, currency |-> currency]
         /\ result' = Return(canGenerateEpcQrCode(iban, currency))
    /\ pc' = "done"
    /\ UNCHANGED <<epcString, qrCalls, qrOutcome, history, pdf>>

BetweenQrOperation ==
    /\ pc = "idle"
    /\ \E data \in { Payload(JaneDoe, i, Undefined, Finite(FALSE, 12, 0), Undefined, Undefined) :
                       i \in {SpacedIban, InvalidIban} },
          options \in { [format |-> "base64"], [format |-> "svg"] } :
         /\ op' = "generateEpcQrCode"
         /\ args' = [data |-> data, options |-> options]
    /\ pc' = "encode"
    /\ UNCHANGED <<result, epcString, qrCalls, qrOutcome, history, pdf>>

\* the caller has the outcome; of a generateEpcString call the observer keeps
\* the input and the result
FinishRecorded ==
    /\ pc = "done"
    /\ history' = IF op = "generateEpcString"
                  THEN Append(history, [data |-> args.data, result |-> result])
                  ELSE history
    /\ pc' = "idle"
    /\ op' = "none"
    /\ args' = NoArgs
    /\ result' = NoResult
    /\ epcString' = Undefined
    /\ qrCalls' = <<>>
    /\ qrOutcome' = NoResult
    /\ UNCHANGED pdf

NextHistory ==
    \/ RecordedCallGenerateEpcString
    \/ BetweenCanGenerateEpcQrCode
    \/ BetweenQrOperation
    \/ EncodeStep
    \/ QrResolve
    \/ QrReject
    \/ FinishRecorded

SpecHistory == Init /\ [][NextHistory]_vars

----------------------------------------------------------------------------
(* The invoice services (XRechnung, ZUGFeRD) and the payment form.         *)

\* a JavaScript value that is a string, or something that is not a string
Str(s) == [type |-> "string", chars |-> s]

JsUndefined == [type |-> "undefined", chars |-> <<>>]

\* what every object literal inherits: the key and the value found under it
ObjectPrototype ==
    { <<<<"c","o","n","s","t","r","u","c","t","o","r">>,
        [type |-> "function", chars |-> <<"O","b","j","e","c","t">>]>>,
      <<<<"t","o","S","t","r","i","n","g">>,
        [type |-> "function", chars |-> <<"t","o","S","t","r","i","n","g">>]>>,
      <<<<"_","_","p","r","o","t","o","_","_">>,
        [type |-> "object", chars |-> <<"O","b","j","e","c","t",".","p","r","o","t","o","t","y","p","e">>]>> }

\* map[key] on an object literal: own properties first, then the prototype
Lookup(map, key) ==
    IF \E e \in map : e[1] = key
    THEN Str((CHOOSE e \in map : e[1] = key)[2])
    ELSE IF \E e \in ObjectPrototype : e[1] = key
    THEN (CHOOSE e \in ObjectPrototype : e[1] = key)[2]
    ELSE JsUndefined

Truthy(v) == v.type # "undefined" /\ ~(v.type = "string" /\ v.chars = <<>>)

\* countryMap of the XRechnung service; the fourth key is spelled in the file
\* with the characters U+00C3 U+2013 before "sterreich"
countryMap_XRechnung ==
    { <<<<"G","e","r","m","a","n","y">>,
        <<"D","E">>>>,
      <<<<"D","e","u","t","s","c","h","l","a","n","d">>,
        <<"D","E">>>>,
      <<<<"A","u","s","t","r","i","a">>,
        <<"A","T">>>>,
      <<<<"U+00C3","U+2013","s","t","e","r","r","e","i","c","h">>,
        <<"A","T">>>>,
      <<<<"S","w","i","t","z","e","r","l","a","n","d">>,
        <<"C","H">>>>,
      <<<<"S","c","h","w","e","i","z">>,
        <<"C","H">>>>,
      <<<<"F","r","a","n","c","e">>,
        <<"F","R">>>>,
      <<<<"F","r","a","n","k","r","e","i","c","h">>,
        <<"F","R">>>>,
      <<<<"I","t","a","l","y">>,
        <<"I","T">>>>,
      <<<<"I","t","a","l","i","e","n">>,
        <<"I","T">>>>,
      <<<<"N","e","t","h","e","r","l","a","n","d","s">>,
        <<"N","L">>>>,
      <<<<"N","i","e","d","e","r","l","a","n","d","e">>,
        <<"N","L">>>>,
      <<<<"B","e","l","g","i","u","m">>,
        <<"B","E">>>>,
      <<<<"B","e","l","g","i","e","n">>,
        <<"B","E">>>>,
      <<<<"U","n","i","t","e","d"," ","K","i","n","g","d","o","m">>,
        <<"G","B">>>>,
      <<<<"U","n","i","t","e","d"," ","S","t","a","t","e","s">>,
        <<"U","S">>>> }

\* countryMap of the ZUGFeRD service
countryMap_ZUGFeRD ==
    { <<<<"G","e","r","m","a","n","y">>,
        <<"D","E">>>>,
      <<<<"D","e","u","t","s","c","h","l","a","n","d">>,
        <<"D","E">>>>,
      <<<<"A","u","s","t","r","i","a">>,
        <<"A","T">>>>,
      <<<<"U+00C3","U+2013","s","t","e","r","r","e","i","c","h">>,
        <<"A","T">>>>,
      <<<<"S","w","i","t","z","e","r","l","a","n","d">>,
        <<"C","H">>>>,
      <<<<"S","c","h","w","e","i","z">>,
        <<"C","H">>>>,
      <<<<"F","r","a","n","c","e">>,
        <<"F","R">>>>,
      <<<<"F","r","a","n","k","r","e","i","c","h">>,
        <<"F","R">>>>,
      <<<<"I","t","a","l","y">>,
        <<"I","T">>>>,
      <<<<"I","t","a","l","i","e","n">>,
        <<"I","T">>>>,
      <<<<"N","e","t","h","e","r","l","a","n","d","s">>,
        <<"N","L">>>>,
      <<<<"N","i","e","d","e","r","l","a","n","d","e">>,
        <<"N","L">>>>,
      <<<<"B","e","l","g","i","u","m">>,
        <<"B","E">>>>,
      <<<<"B","e","l","g","i","e","n">>,
        <<"B","E">>>>,
      <<<<"U","n","i","t","e","d"," ","K","i","n","g","d","o","m">>,
        <<"G","B">>>>,
      <<<<"U","n","i","t","e","d"," ","S","t","a","t","e","s">>,
        <<"U","S">>>> }

getCountryCode_XRechnung(country) ==
    LET mapped == Lookup(countryMap_XRechnung, country)
    IN  IF Truthy(mapped) THEN mapped
        ELSE Str(ToUpperCase(Substring0(country, 2)))

getCountryCode_ZUGFeRD(country) ==
    LET mapped == Lookup(countryMap_ZUGFeRD, country)
    IN  IF Truthy(mapped) THEN mapped
        ELSE Str(ToUpperCase(Substring0(country, 2)))

getCurrencyCode(currency) ==
    LET code == ToUpperCase(Split(currency, " ")[1])
    IN  IF Len(code) = 3 THEN code ELSE EUR

getCurrencyCode_XRechnung(currency) ==
    LET code == ToUpperCase(Split(currency, " ")[1])
    IN  IF Len(code) = 3 THEN code ELSE EUR

getCurrencyCode_ZUGFeRD(currency) ==
    LET code == ToUpperCase(Split(currency, " ")[1])
    IN  IF Len(code) = 3 THEN code ELSE EUR

\* whether canShowEpcOption (iban && iban.length > 10 && isEurCurrency) is
\* truthy
canShowEpcOption(iban, currency) ==
    LET isEurCurrency == Falsy(currency) \/ StartsWith(ToUpperCase(currency), EUR)
    IN  ~Falsy(iban) /\ Len(iban) > 10 /\ isEurCurrency

Countries ==
    { e[1] : e \in countryMap_XRechnung \cup countryMap_ZUGFeRD }
    \cup { e[1] : e \in ObjectPrototype }
    \cup { <<>>, <<"x">>, <<"g","e","r","m","a","n","y">>, <<"G","E","R","M","A","N","Y">>, <<"S","p","a","i","n">>, <<"d","e">>,
           <<"O","s","t","e","r","r","e","i","c","h">>, <<"U","n","i","t","e","d">>, <<"v","a","l","u","e","o","f">> }

CurrencyLabels == Currencies \ {Undefined}

Copies == {"XRechnung", "ZUGFeRD", "epcQrCode"}

CallGetCountryCode ==
    /\ pc = "idle"
    /\ \E copy \in Copies \ {"epcQrCode"}, country \in Countries :
         /\ op' = "getCountryCode"
         /\ args' = [copy |-> copy, country |-> country]
         /\ result' = Return(IF copy = "XRechnung"
                             THEN getCountryCode_XRechnung(country)
                             ELSE getCountryCode_ZUGFeRD(country))
    /\ pc' = "done"
    /\ UNCHANGED <<epcString, qrCalls, qrOutcome, history, pdf>>

CallGetCurrencyCode ==
    /\ pc = "idle"
    /\ \E copy \in Copies, currency \in CurrencyLabels :
         /\ op' = "getCurrencyCode"
         /\ args' = [copy |-> copy, currency |-> currency]
         /\ result' = Return(CASE copy = "XRechnung" -> getCurrencyCode_XRechnung(currency)
                               [] copy = "ZUGFeRD" -> getCurrencyCode_ZUGFeRD(currency)
                               [] OTHER -> getCurrencyCode(currency))
    /\ pc' = "done"
    /\ UNCHANGED <<epcString, qrCalls, qrOutcome, history, pdf>>

\* one render of the payment form: the switch is disabled unless
\* canShowEpcOption is truthy
RenderPaymentInformation ==
    /\ pc = "idle"
    /\ \E iban \in Ibans, currency \in Currencies :
         /\ op' = "PaymentInformation"
         /\ args' = [iban |-> iban, currency |-> currency]
         /\ result' = Return([disabled |-> ~canShowEpcOption(iban, currency)])
    /\ pc' = "done"
    /\ UNCHANGED <<epcString, qrCalls, qrOutcome, history, pdf>>

NextInvoice ==
    \/ CallGetCountryCode
    \/ CallGetCurrencyCode
    \/ RenderPaymentInformation
    \/ CallCanGenerateEpcQrCode
    \/ Finish

SpecInvoice == Init /\ [][NextInvoice]_vars

\* C13: getCountryCode returns the mapped ISO code for every country name in
\* its table and, for every other input, the first two characters of the
\* input upper-cased; the XRechnung copy and the ZUGFeRD copy return the same
\* result for every input.
C13_CountryCode ==
    (pc = "done" /\ op = "getCountryCode") =>
        LET country == args.country
            map == IF args.copy = "XRechnung" THEN countryMap_XRechnung
                   ELSE countryMap_ZUGFeRD
        IN  /\ result.value =
                 IF \E e \in map : e[1] = country
                 THEN Str((CHOOSE e \in map : e[1] = country)[2])
                 ELSE Str(ToUpperCase(Substring0(country, 2)))
            /\ getCountryCode_XRechnung(country) = getCountryCode_ZUGFeRD(country)

\* C17: whenever the payment form enables the switch for an IBAN and currency
\* label (canShowEpcOption is truthy), canGenerateEpcQrCode returns true for
\* the same IBAN and currency label.
C17_SwitchImpliesGate ==
    (pc = "done" /\ op = "PaymentInformation" /\ ~result.value.disabled) =>
        canGenerateEpcQrCode(args.iban, args.currency)

\* C18: for every structurally valid IBAN and every currency label,
\* canGenerateEpcQrCode returns true exactly when getCurrencyCode returns EUR,
\* in the XRechnung copy and in the ZUGFeRD copy.
C18_GateAgreesWithCurrencyCode ==
    (/\ pc = "done"
     /\ op = "canGenerateEpcQrCode"
     /\ args.currency \in CurrencyLabels
     /\ validateIban(args.iban)) =>
        /\ result.value <=> getCurrencyCode_XRechnung(args.currency) = EUR
        /\ result.value <=> getCurrencyCode_ZUGFeRD(args.currency) = EUR

----------------------------------------------------------------------------
(* generatePdfBuffer of the ZUGFeRD service: the try block step by step,   *)
(* then the finally block. Every awaited call of a collaborator may reject. *)

\* how many pages browser.pages() lists at most
MaxPages == 2

Environments == {"production", "development"}

RenderErrors == {"import react-dom/server", "getInvoiceTemplate", "renderToStaticMarkup"}

LaunchErrors(env) ==
    IF env = "production"
    THEN {"import puppeteer-core", "chromium.executablePath", "puppeteer.launch"}
    ELSE {"import puppeteer", "puppeteer.launch"}

ErrFailedToLaunch == "Failed to launch browser"

PdfBytes == "pdf"

\* the locals at entry: browser and page unassigned, the try block not yet
\* completed, nothing closed, nothing logged
PdfEntry ==
    [ browser |-> "undefined", page |-> "undefined", outcome |-> NoResult,
      pageCloseCalled |-> FALSE, listed |-> 0, listedCloseCalls |-> 0,
      browserCloseCalled |-> FALSE, logged |-> <<>> ]

PdfUnchanged == UNCHANGED <<op, args, result, epcString, qrCalls, qrOutcome, history>>

\* a rejection inside the try block: control goes to the finally block with
\* the error pending
Fail(e) ==
    /\ pdf' = [pdf EXCEPT !.outcome = Throw(e)]
    /\ pc' = "finally"

CallGeneratePdfBuffer ==
    /\ pc = "idle"
    /\ \E env \in Environments :
         /\ op' = "generatePdfBuffer"
         /\ args' = [env |-> env]
    /\ pdf' = PdfEntry
    /\ pc' = "render"
    /\ UNCHANGED <<result, epcString, qrCalls, qrOutcome, history>>

RenderTemplate ==
    /\ pc = "render"
    /\ \/ pc' = "launch" /\ UNCHANGED pdf
       \/ \E e \in RenderErrors : Fail(e)
    /\ PdfUnchanged

\* puppeteer.launch and the check of its result
LaunchBrowser ==
    /\ pc = "launch"
    /\ \/ /\ pdf' = [pdf EXCEPT !.browser = "launched"]
          /\ pc' = "newPage"
       \/ /\ pdf' = [pdf EXCEPT !.browser = "null", !.outcome = Throw(ErrFailedToLaunch)]
          /\ pc' = "finally"
       \/ \E e \in LaunchErrors(args.env) : Fail(e)
    /\ PdfUnchanged

NewPage ==
    /\ pc = "newPage"
    /\ \/ /\ pdf' = [pdf EXCEPT !.page = "open"]
          /\ pc' = "setContent"
       \/ Fail("browser.newPage")
    /\ PdfUnchanged

SetContent ==
    /\ pc = "setContent"
    /\ \/ pc' = "addStyleTag" /\ UNCHANGED pdf
       \/ Fail("page.setContent")
    /\ PdfUnchanged

AddStyleTag ==
    /\ pc = "addStyleTag"
    /\ \/ pc' = "pdf" /\ UNCHANGED pdf
       \/ Fail("page.addStyleTag")
    /\ PdfUnchanged

PrintPdf ==
    /\ pc = "pdf"
    /\ \/ /\ pdf' = [pdf EXCEPT !.outcome = Return(PdfBytes)]
          /\ pc' = "finally"
       \/ Fail("page.pdf")
    /\ PdfUnchanged

\* finally, first part: if (page) { try { await page.close() } catch {log} }
ClosePage ==
    /\ pc = "finally"
    /\ IF pdf.page = "open"
       THEN \E ok \in BOOLEAN :
              pdf' = [pdf EXCEPT !.pageCloseCalled = TRUE,
                                 !.page = IF ok THEN "closed" ELSE @,
                                 !.logged = IF ok THEN @
                                            ELSE Append(@, "Error closing page:")]
       ELSE UNCHANGED pdf
    /\ pc' = "closeBrowser"
    /\ PdfUnchanged

\* what the statements after browser.pages() do when the close of the listed
\* pages in failing rejects: Promise.all rejects and the catch block is
\* entered before browser.close(); otherwise browser.close() is called
CloseBrowser(failing, ok) ==
    IF failing # {}
    THEN [called |-> FALSE, logs |-> <<"Error closing browser:">>]
    ELSE [called |-> TRUE, logs |-> IF ok THEN <<>> ELSE <<"Error closing browser:">>]

\* finally, second part: if (browser) { try { pages, close each, close }
\* catch {log} }
CloseBrowserStep ==
    /\ pc = "closeBrowser"
    /\ IF pdf.browser = "launched"
       THEN \/ pdf' = [pdf EXCEPT !.logged = Append(@, "Error closing browser:")]
            \/ \E n \in 0..MaxPages, ok \in BOOLEAN :
                 \E failing \in SUBSET (1..n) :
                    LET c == CloseBrowser(failing, ok)
                    IN  pdf' = [pdf EXCEPT !.listed = n,
                                           !.listedCloseCalls = n,
                                           !.browserCloseCalled = c.called,
                                           !.logged = @ \o c.logs]
       ELSE UNCHANGED pdf
    /\ pc' = "settle"
    /\ PdfUnchanged

\* the finally block completed normally: the completion of the try block is
\* the function's result
Settle ==
    /\ pc = "settle"
    /\ result' = pdf.outcome
    /\ pc' = "done"
    /\ UNCHANGED <<op, args, epcString, qrCalls, qrOutcome, history, pdf>>

FinishPdf ==
    /\ pc = "done"
    /\ pc' = "idle"
    /\ op' = "none"
    /\ args' = NoArgs
    /\ result' = NoResult
    /\ pdf' = NoPdf
    /\ UNCHANGED <<epcString, qrCalls, qrOutcome, history>>

NextPdf ==
    \/ CallGeneratePdfBuffer
    \/ RenderTemplate
    \/ LaunchBrowser
    \/ NewPage
    \/ SetContent
    \/ AddStyleTag
    \/ PrintPdf
    \/ ClosePage
    \/ CloseBrowserStep
    \/ Settle
    \/ FinishPdf

SpecPdf == Init /\ [][NextPdf]_vars

\* C19: in generatePdfBuffer, on every path on which a browser was launched,
\* browser.close() has been called by the time the function returns or
\* throws, and a failure during cleanup never replaces the PDF result or the
\* original error.
C19_BrowserClosed ==
    (pc = "done" /\ op = "generatePdfBuffer") =>
        /\ pdf.browser = "launched" => pdf.browserCloseCalled
        /\ result = pdf.outcome
        /\ result.kind \in {"return", "throw"}
        /\ result.kind = "throw" =>
             result.error \notin {"Error closing page:", "Error closing browser:"}

====
